---- MODULE Spec2Model ----
(***************************************************************************)
(* Model of the request handlers of src/api.py (Food Aesthetics API):      *)
(* POST /score (score_image), POST /score-batch (score_batch_images) and   *)
(* the legacy POST /score-file (score_image_file).                         *)
(*                                                                         *)
(* Under Spec one behaviour is one request; under SpecPair two requests    *)
(* share the event loop and the temporary directory.  The handlers are     *)
(* `async def` bodies: score_image and score_batch_images hold no await    *)
(* and run to completion once started, score_image_file yields once, at    *)
(* `await file.read()`.  The batch handler is cut into its phases          *)
(* (precondition checks, one loop iteration per entry, the cleanup loop,   *)
(* the response) so that the state between two iterations is visible.      *)
(*                                                                         *)
(* An entry of the request is abstracted to the first step of the item     *)
(* pipeline that raises for it (its "kind"):                               *)
(*   "malformed"        not a dict, or a dict without 'image_data'         *)
(*   "b64decode"        base64.b64decode raises                            *)
(*   "open"             Image.open / image.convert raises                  *)
(*   "tempfile"         tempfile.NamedTemporaryFile raises, no file made   *)
(*   "save"             image.save / image_format.upper() raises inside    *)
(*                      the with block: the file exists already            *)
(*   "aesthetic_score"  fa_model.aesthetic_score raises                    *)
(*   "float"            float(score) raises                                *)
(*   "nonfinite"        the score is nan or inf: float(score) succeeds,    *)
(*                      JSONResponse cannot render it                      *)
(*   "ok"               nothing raises                                     *)
(* The entries of a batch are drawn when the loop enumerates them; the     *)
(* number of entries is drawn with the request.                            *)
(***************************************************************************)
EXTENDS Integers, Sequences, FiniteSets, TLC

\* src/api.py:138  `if len(images) > 10`
MaxImages == 10

\* Bound of the model: at most this many entries of one batch are not "ok".
MaxFaulty == 2

\* Bound of SpecPair: the largest batch of a pair of requests.
PairImages == 2

Kinds ==
  {"malformed", "b64decode", "open", "tempfile", "save",
   "aesthetic_score", "float", "nonfinite", "ok"}

\* the kinds of an upload to /score-file: "content_type" is a content type
\* that does not start with image/, "write" a failure of file.read() or
\* temp_file.write() inside the with block
FileKinds ==
  {"content_type", "tempfile", "write", "aesthetic_score", "float",
   "nonfinite", "ok"}

\* PIL channel modes of a submitted image
Modes == {"RGB", "L", "RGBA", "P"}

Endpoints == {"score", "score-batch", "score-file"}

VARIABLES
  endpoint,      \* the route of the request
  fa_model,      \* "loaded" or "None": the global model handle
  len_images,    \* len(images) of the request body (1 for /score)
  images,        \* the kinds of the entries enumerated so far, in order
  pc,            \* "request", "loop", "respond", "done"
  results,       \* the list `results` of score_batch_images
  temp_files,    \* the list `temp_files` of score_batch_images
  fs,            \* names of the temporary files that exist
  owner,         \* name -> 0-based index of the entry whose pipeline created it
  decode_calls,  \* indices of the entries whose decoding was started
  scorer_calls,  \* sequence of names handed to fa_model.aesthetic_score
  unlink_calls,  \* sequence of names passed to os.unlink, in call order
  scorer_modes,  \* channel mode of the image in each file handed to the scorer
  response,      \* the response of the request, once pc = "done"
  saved          \* SpecPair: the other request, while this one holds the loop

vars ==
  <<endpoint, fa_model, len_images, images, pc, results, temp_files, fs,
    owner, decode_calls, scorer_calls, unlink_calls, scorer_modes, response,
    saved>>

NoResponse == [status |-> 0]

----------------------------------------------------------------------------
\* Classification of an entry by how far its pipeline gets.

\* Variant: the loop never takes the `continue` branch.
WellFormedAlways(e) == TRUE

\* isinstance(img_obj, dict) and 'image_data' in img_obj
WellFormed(e) == e # "malformed"

\* Variant: the temporary file is made before the payload is decoded.
CreatesFileEarly(e) == e # "malformed"

\* tempfile.NamedTemporaryFile(delete=False, ...) returned: the file exists
CreatesFile(e) ==
  e \in {"save", "write", "aesthetic_score", "float", "nonfinite", "ok"}

\* the with block completed: temp_file_path is assigned
PathAssigned(e) == e \in {"aesthetic_score", "float", "nonfinite", "ok"}

\* fa_model.aesthetic_score(temp_file_path) is called
ScorerCalled(e) == PathAssigned(e)

\* the scorer returned and float(score) succeeded
Scored(e) == e \in {"nonfinite", "ok"}

\* if image.mode != 'RGB': image = image.convert('RGB')
Normalized(mode) == IF mode # "RGB" THEN "RGB" ELSE mode

\* the modes image.save can be handed by score_image and
\* score_batch_images: those of the submitted modes after the conversion
SavedModes == {Normalized(m) : m \in Modes}

\* json.dumps(..., allow_nan=False) of JSONResponse accepts the score
Renderable(score) == score = "finite"

\* Variant: a fixed path instead of a name the directory does not hold.
FreshNameFixed(files) == 1

\* NamedTemporaryFile opens with O_EXCL: the name is one no existing file has
FreshName(files) == CHOOSE k \in 1..(Cardinality(files) + 1) : k \notin files

\* Variant: the unlink is missing.
UnlinkNothing(files, path) == files

\* os.unlink(path): the file is gone afterwards (ENOENT is raised, and
\* swallowed by the callers' bare except, when it was gone before)
Unlink(files, path) == files \ {path}

RECURSIVE UnlinkAll(_, _)
\* for temp_file in temp_files: try: os.unlink(temp_file) except: pass
UnlinkAll(files, paths) ==
  IF paths = <<>> THEN files
  ELSE UnlinkAll(Unlink(files, Head(paths)), Tail(paths))

Faulty(seq) == Cardinality({k \in DOMAIN seq : seq[k] # "ok"})

\* the entries the model draws: at most MaxFaulty of a batch are not "ok"
WithinBudget(seq, e) == e = "ok" \/ Faulty(seq) < MaxFaulty

\* no other request
NoRequest == [pc |-> "none"]

----------------------------------------------------------------------------
Init ==
  /\ endpoint \in Endpoints
  /\ fa_model \in {"loaded", "None"}
  /\ len_images \in IF endpoint = "score-batch" THEN 0..(MaxImages + 1) ELSE {1}
  /\ images = <<>>
  /\ pc = "request"
  /\ results = <<>>
  /\ temp_files = <<>>
  /\ fs = {}
  /\ owner = <<>>
  /\ decode_calls = {}
  /\ scorer_calls = <<>>
  /\ unlink_calls = <<>>
  /\ scorer_modes = <<>>
  /\ response = NoResponse
  /\ saved = NoRequest

----------------------------------------------------------------------------
\* Helpers of the handlers.

\* Variant: `except ValueError`, which lets the other failures through.
CaughtOnlyDecode(e) == e \in {"b64decode", "open"}

\* `except Exception as e` around the item pipeline: every failure of a
\* step of the pipeline is an Exception, so every kind is caught.
CaughtPerItem(e) == TRUE

\* Variant: the index is the number of results so far, not the position.
ItemResultCompacted(i, e) ==
  IF Scored(e)
  THEN [image_index |-> Len(results),
        aesthetic_score |-> IF e = "ok" THEN "finite" ELSE "nonfinite",
        image_format |-> "jpeg",
        image_size |-> "WxH"]
  ELSE [image_index |-> Len(results), error |-> e]

\* The dict appended to `results` for entry number i (0-based, from
\* enumerate(images)) of kind e: the success dict, or the error dict of the
\* except branch.  The error text names the step that raised.
ItemResult(i, e) ==
  IF Scored(e)
  THEN [image_index |-> i,
        aesthetic_score |-> IF e = "ok" THEN "finite" ELSE "nonfinite",
        image_format |-> "jpeg",
        image_size |-> "WxH"]
  ELSE [image_index |-> i, error |-> e]

\* Variant: results.insert(0, ...)
PrependResult(res, r) == <<r>> \o res

\* Variant: the except branch drops the error dict (`pass`).
AppendResultOnSuccess(res, r) ==
  IF "error" \in DOMAIN r THEN res ELSE Append(res, r)

\* results.append(...)
AppendResult(res, r) == Append(res, r)

\* Variant: temp_files.append(...) placed after the scorer call.
TrackedAfterScore(paths, e, name) ==
  IF Scored(e) THEN Append(paths, name) ELSE paths

\* temp_files after the pipeline of an entry of kind e that created `name`:
\* temp_files.append(temp_file_path) is the last statement of the with
\* block, after image.save and before the scorer call.
Tracked(paths, e, name) == IF PathAssigned(e) THEN Append(paths, name) ELSE paths

\* Variant: len(results)
SuccessfulImagesAll(res) == Len(res)

\* len([r for r in results if "error" not in r])
SuccessfulImages(res) == Len(SelectSeq(res, LAMBDA r : "error" \notin DOMAIN r))

\* Variant: len(results)
TotalImagesProcessed(n, res) == Len(res)

\* "total_images": len(images)
TotalImages(n, res) == n

\* JSONResponse({...results...}) renders the body in its constructor
BodyRenders(res) ==
  \A k \in DOMAIN res :
    "aesthetic_score" \in DOMAIN res[k] => Renderable(res[k].aesthetic_score)

\* Variant: the empty-batch check is missing.
BatchCheckNoEmpty(model, n) ==
  IF model = "None" THEN [status |-> 503, detail |-> "Model not loaded"]
  ELSE IF n > MaxImages
       THEN [status |-> 400, detail |-> "Maximum 10 images allowed per batch"]
  ELSE NoResponse

\* Variant: `len(images) >= 10`
BatchCheckOffByOne(model, n) ==
  IF model = "None" THEN [status |-> 503, detail |-> "Model not loaded"]
  ELSE IF n = 0 THEN [status |-> 400, detail |-> "No images provided"]
  ELSE IF n >= MaxImages
       THEN [status |-> 400, detail |-> "Maximum 10 images allowed per batch"]
  ELSE NoResponse

\* Variant: the model check comes after the size checks.
BatchCheckModelLast(model, n) ==
  IF n = 0 THEN [status |-> 400, detail |-> "No images provided"]
  ELSE IF n > MaxImages
       THEN [status |-> 400, detail |-> "Maximum 10 images allowed per batch"]
  ELSE IF model = "None" THEN [status |-> 503, detail |-> "Model not loaded"]
  ELSE NoResponse

\* The three request-level checks of score_batch_images, in code order;
\* NoResponse when the batch is accepted.
BatchCheck(model, n) ==
  IF model = "None" THEN [status |-> 503, detail |-> "Model not loaded"]
  ELSE IF n = 0 THEN [status |-> 400, detail |-> "No images provided"]
  ELSE IF n > MaxImages
       THEN [status |-> 400, detail |-> "Maximum 10 images allowed per batch"]
  ELSE NoResponse

----------------------------------------------------------------------------
\* POST /score-batch

\* One of the three checks raises HTTPException before the try block.
BatchReject ==
  /\ pc = "request" /\ endpoint = "score-batch"
  /\ BatchCheck(fa_model, len_images) # NoResponse
  /\ response' = BatchCheck(fa_model, len_images)
  /\ pc' = "done"
  /\ UNCHANGED <<saved, endpoint, fa_model, len_images, images, results, temp_files,
                 fs, owner, decode_calls, scorer_calls, scorer_modes, unlink_calls>>

\* results = []; temp_files = []; the loop is entered.
BatchAccept ==
  /\ pc = "request" /\ endpoint = "score-batch"
  /\ BatchCheck(fa_model, len_images) = NoResponse
  /\ results' = <<>>
  /\ temp_files' = <<>>
  /\ pc' = "loop"
  /\ UNCHANGED <<saved, endpoint, fa_model, len_images, images, fs, owner,
                 decode_calls, scorer_calls, scorer_modes, unlink_calls, response>>

\* A loop iteration on a malformed entry: `continue`.
SkipEntry ==
  /\ pc = "loop" /\ Len(images) < len_images
  /\ \E e \in Kinds :
       /\ WithinBudget(images, e)
       /\ ~WellFormed(e)
       /\ images' = Append(images, e)
  /\ UNCHANGED <<saved, endpoint, fa_model, len_images, pc, results, temp_files, fs,
                 owner, decode_calls, scorer_calls, scorer_modes, unlink_calls, response>>

\* A loop iteration on a well-formed entry: the inner try block and its
\* except branch.  Were the failure not caught by the inner except, the
\* outer except would unlink temp_files and raise the 500.
ProcessEntry ==
  /\ pc = "loop" /\ Len(images) < len_images
  /\ \E e \in Kinds :
       /\ WithinBudget(images, e)
       /\ WellFormed(e)
       /\ LET i == Len(images)
              name == FreshName(fs)
              paths == IF CreatesFile(e) THEN Tracked(temp_files, e, name)
                       ELSE temp_files
          IN
          /\ images' = Append(images, e)
          /\ decode_calls' = decode_calls \cup {i}
          /\ fs' = IF CreatesFile(e) THEN fs \cup {name} ELSE fs
          /\ owner' = IF CreatesFile(e) THEN (name :> i) @@ owner ELSE owner
          /\ scorer_calls' =
               IF ScorerCalled(e) THEN Append(scorer_calls, name)
               ELSE scorer_calls
          /\ \E m \in SavedModes :
               scorer_modes' =
                 IF ScorerCalled(e) THEN Append(scorer_modes, m)
                 ELSE scorer_modes
          /\ temp_files' = paths
          /\ IF Scored(e) \/ CaughtPerItem(e)
             THEN /\ results' = AppendResult(results, ItemResult(i, e))
                  /\ pc' = "loop"
                  /\ UNCHANGED <<unlink_calls, response>>
             ELSE /\ results' = results
                  /\ unlink_calls' = unlink_calls \o paths
                  /\ response' = [status |-> 500,
                                  detail |-> "Error processing batch"]
                  /\ pc' = "done"
  /\ UNCHANGED <<saved, endpoint, fa_model, len_images>>

\* The loop is exhausted: the cleanup loop over temp_files.
BatchCleanup ==
  /\ pc = "loop" /\ Len(images) = len_images
  /\ fs' = UnlinkAll(fs, temp_files)
  /\ unlink_calls' = unlink_calls \o temp_files
  /\ pc' = "respond"
  /\ UNCHANGED <<saved, endpoint, fa_model, len_images, images, results, temp_files,
                 owner, decode_calls, scorer_calls, scorer_modes, response>>

\* return JSONResponse({...})
BatchRespond ==
  /\ pc = "respond"
  /\ BodyRenders(results)
  /\ response' = [status |-> 200,
                  results |-> results,
                  total_images |-> TotalImages(len_images, results),
                  successful_images |-> SuccessfulImages(results),
                  message |-> "Batch scoring completed"]
  /\ pc' = "done"
  /\ UNCHANGED <<saved, endpoint, fa_model, len_images, images, results, temp_files,
                 fs, owner, decode_calls, scorer_calls, scorer_modes, unlink_calls>>

\* JSONResponse raises inside the try block: the outer except unlinks
\* temp_files once more and raises the 500.
BatchRespondFails ==
  /\ pc = "respond"
  /\ ~BodyRenders(results)
  /\ fs' = UnlinkAll(fs, temp_files)
  /\ unlink_calls' = unlink_calls \o temp_files
  /\ response' = [status |-> 500, detail |-> "Error processing batch"]
  /\ pc' = "done"
  /\ UNCHANGED <<saved, endpoint, fa_model, len_images, images, results, temp_files,
                 owner, decode_calls, scorer_calls, scorer_modes>>

----------------------------------------------------------------------------
\* POST /score

\* if fa_model is None: raise HTTPException(503)
ScoreReject ==
  /\ pc = "request" /\ endpoint = "score"
  /\ fa_model = "None"
  /\ response' = [status |-> 503, detail |-> "Model not loaded"]
  /\ pc' = "done"
  /\ UNCHANGED <<saved, endpoint, fa_model, len_images, images, results, temp_files,
                 fs, owner, decode_calls, scorer_calls, scorer_modes, unlink_calls>>

\* os.unlink calls of score_image for a payload of kind e that created
\* `name`: line 100 runs once the scorer returned; the except branch runs
\* its unlink only when temp_file_path is in locals().
ScoreUnlinks(e, name) ==
  IF ~PathAssigned(e) THEN <<>>
  ELSE IF e = "aesthetic_score" THEN <<name>>
  ELSE IF e = "ok" THEN <<name>>
  ELSE <<name, name>>

\* The whole try/except of score_image for one payload.
ScoreImage ==
  /\ pc = "request" /\ endpoint = "score"
  /\ fa_model # "None"
  /\ \E e \in Kinds :
       /\ WellFormed(e)
       /\ LET name == FreshName(fs)
              made == IF CreatesFile(e) THEN fs \cup {name} ELSE fs
          IN
          /\ images' = <<e>>
          /\ decode_calls' = {0}
          /\ owner' = IF CreatesFile(e) THEN (name :> 0) @@ owner ELSE owner
          /\ scorer_calls' = IF ScorerCalled(e) THEN <<name>> ELSE <<>>
          /\ \E m \in SavedModes :
               scorer_modes' = IF ScorerCalled(e) THEN <<m>> ELSE <<>>
          /\ unlink_calls' = ScoreUnlinks(e, name)
          /\ fs' = UnlinkAll(made, ScoreUnlinks(e, name))
          /\ response' =
               IF e = "ok"
               THEN [status |-> 200,
                     aesthetic_score |-> "finite",
                     image_format |-> "jpeg",
                     image_size |-> "WxH",
                     message |-> "Image scored successfully"]
               ELSE [status |-> 500, detail |-> "Error processing image"]
          /\ pc' = "done"
  /\ UNCHANGED <<saved, endpoint, fa_model, len_images, results, temp_files>>

----------------------------------------------------------------------------
\* POST /score-file (legacy)

\* if fa_model is None: raise HTTPException(503)
ScoreFileReject ==
  /\ pc = "request" /\ endpoint = "score-file"
  /\ fa_model = "None"
  /\ response' = [status |-> 503, detail |-> "Model not loaded"]
  /\ pc' = "done"
  /\ UNCHANGED <<saved, endpoint, fa_model, len_images, images, results,
                 temp_files, fs, owner, decode_calls, scorer_calls,
                 scorer_modes, unlink_calls>>

\* if not file.content_type.startswith('image/'): raise HTTPException(400)
ScoreFileBadType ==
  /\ pc = "request" /\ endpoint = "score-file"
  /\ fa_model # "None"
  /\ images' = <<"content_type">>
  /\ response' = [status |-> 400, detail |-> "File must be an image"]
  /\ pc' = "done"
  /\ UNCHANGED <<saved, endpoint, fa_model, len_images, results, temp_files,
                 fs, owner, decode_calls, scorer_calls, scorer_modes,
                 unlink_calls>>

\* The try block up to `await file.read()`: NamedTemporaryFile makes the
\* file (or raises, and the except branch raises the 500), then the
\* coroutine yields to the event loop.
ScoreFileBegin ==
  /\ pc = "request" /\ endpoint = "score-file"
  /\ fa_model # "None"
  /\ \E e \in FileKinds \ {"content_type"} :
       /\ images' = <<e>>
       /\ IF CreatesFile(e)
          THEN /\ fs' = fs \cup {FreshName(fs)}
               /\ owner' = (FreshName(fs) :> 0) @@ owner
               /\ pc' = "await"
               /\ UNCHANGED response
          ELSE /\ response' = [status |-> 500,
                               detail |-> "Error processing image"]
               /\ pc' = "done"
               /\ UNCHANGED <<fs, owner>>
  /\ UNCHANGED <<saved, endpoint, fa_model, len_images, results, temp_files,
                 decode_calls, scorer_calls, scorer_modes, unlink_calls>>

\* The rest of score_image_file, once file.read() has returned: the
\* upload is written to the file as it came, the scorer is called on it,
\* the file is unlinked and the response built; the except branch unlinks
\* when temp_file_path is in locals().
ScoreFileResume ==
  /\ pc = "await"
  /\ LET e == images[1]
         name == CHOOSE f \in DOMAIN owner : TRUE
     IN
     /\ scorer_calls' = IF ScorerCalled(e) THEN <<name>> ELSE <<>>
     /\ \E m \in Modes :
          scorer_modes' = IF ScorerCalled(e) THEN <<m>> ELSE <<>>
     /\ unlink_calls' = ScoreUnlinks(e, name)
     /\ fs' = UnlinkAll(fs, ScoreUnlinks(e, name))
     /\ response' =
          IF e = "ok"
          THEN [status |-> 200,
                filename |-> "upload",
                aesthetic_score |-> "finite",
                message |-> "Image scored successfully"]
          ELSE [status |-> 500, detail |-> "Error processing image"]
     /\ pc' = "done"
  /\ UNCHANGED <<saved, endpoint, fa_model, len_images, images, results,
                 temp_files, owner, decode_calls>>

----------------------------------------------------------------------------
\* Two requests on one event loop.

\* the state of a request: the locals of its handler and what it did so far
Ctx ==
  [endpoint |-> endpoint, len_images |-> len_images, images |-> images,
   pc |-> pc, results |-> results, temp_files |-> temp_files,
   owner |-> owner, decode_calls |-> decode_calls,
   scorer_calls |-> scorer_calls, unlink_calls |-> unlink_calls,
   scorer_modes |-> scorer_modes, response |-> response]

\* a request that has arrived and whose handler has not started
FreshCtx(ep, n) ==
  [endpoint |-> ep, len_images |-> n, images |-> <<>>, pc |-> "request",
   results |-> <<>>, temp_files |-> <<>>, owner |-> <<>>,
   decode_calls |-> {}, scorer_calls |-> <<>>, unlink_calls |-> <<>>,
   scorer_modes |-> <<>>, response |-> NoResponse]

\* The event loop runs the other request.  It can do so only where the
\* running handler is not started, has returned, or waits at its await.
Switch ==
  /\ saved # NoRequest
  /\ pc \in {"request", "await", "done"}
  /\ saved.pc # "done"
  /\ saved' = Ctx
  /\ endpoint' = saved.endpoint
  /\ len_images' = saved.len_images
  /\ images' = saved.images
  /\ pc' = saved.pc
  /\ results' = saved.results
  /\ temp_files' = saved.temp_files
  /\ owner' = saved.owner
  /\ decode_calls' = saved.decode_calls
  /\ scorer_calls' = saved.scorer_calls
  /\ unlink_calls' = saved.unlink_calls
  /\ scorer_modes' = saved.scorer_modes
  /\ response' = saved.response
  /\ UNCHANGED <<fa_model, fs>>

PairSizes(ep) == IF ep = "score-batch" THEN 0..PairImages ELSE {1}

InitPair ==
  /\ fa_model \in {"loaded", "None"}
  /\ fs = {}
  /\ \E ep1, ep2 \in Endpoints :
       \E n1 \in PairSizes(ep1), n2 \in PairSizes(ep2) :
         /\ endpoint = ep1
         /\ len_images = n1
         /\ images = <<>>
         /\ pc = "request"
         /\ results = <<>>
         /\ temp_files = <<>>
         /\ owner = <<>>
         /\ decode_calls = {}
         /\ scorer_calls = <<>>
         /\ unlink_calls = <<>>
         /\ scorer_modes = <<>>
         /\ response = NoResponse
         /\ saved = FreshCtx(ep2, n2)

----------------------------------------------------------------------------
Next ==
  \/ BatchReject
  \/ BatchAccept
  \/ SkipEntry
  \/ ProcessEntry
  \/ BatchCleanup
  \/ BatchRespond
  \/ BatchRespondFails
  \/ ScoreReject
  \/ ScoreImage
  \/ ScoreFileReject
  \/ ScoreFileBadType
  \/ ScoreFileBegin
  \/ ScoreFileResume

Spec == Init /\ [][Next]_vars

NextPair == Next \/ Switch

SpecPair == InitPair /\ [][NextPair]_vars

----------------------------------------------------------------------------
\* Vocabulary of the properties.

Done == pc = "done"

Batch == endpoint = "score-batch"

\* a batch that passes the three request-level checks
Accepted == Batch /\ fa_model = "loaded" /\ len_images \in 1..MaxImages

\* the pipeline of the entry raised at decoding, acquisition or scoring
ItemFailedKinds ==
  {"b64decode", "open", "tempfile", "save", "aesthetic_score", "float"}

ItemFailed(e) == e \in ItemFailedKinds

IsError(r) == "error" \in DOMAIN r

IsSuccess(r) == "aesthetic_score" \in DOMAIN r

\* the results whose image_index is idx
ResultsOf(res, idx) == {j \in DOMAIN res : res[j].image_index = idx}

\* the scratch artifacts this request created that still exist
Leaked == DOMAIN owner \cap fs

NoItemTouched ==
  /\ images = <<>>
  /\ results = <<>>
  /\ decode_calls = {}
  /\ DOMAIN owner = {}
  /\ scorer_calls = <<>>
  /\ fs = {}

----------------------------------------------------------------------------
\* C1: when a request to /score or /score-batch has produced its response
\* or error, no scratch artifact the request created still exists, whatever
\* the exit path (success, scorer failure, failure while re-encoding into
\* the file).
C1_NoScratchLeft ==
  (Done /\ endpoint \in {"score", "score-batch"}) => Leaked = {}

\* C2: in an accepted batch a failure of an item at decoding, acquisition
\* or scoring is absorbed: every entry is enumerated, each failing item has
\* one result with an error, each later well-formed entry has its result,
\* and the request ends with the success response unless a scored item
\* carries a score the response cannot render (which is no item failure).
C2_ItemFailureAbsorbed ==
  (Done /\ Accepted) =>
    /\ Len(images) = len_images
    /\ \A k \in DOMAIN images :
         /\ ItemFailed(images[k]) =>
              \E j \in ResultsOf(results, k - 1) : IsError(results[j])
         /\ images[k] \in {"ok", "nonfinite"} =>
              \E j \in ResultsOf(results, k - 1) : IsSuccess(results[j])
    /\ response.status = 200 <=> (\A k \in DOMAIN images : images[k] # "nonfinite")
    /\ response.status = 200 =>
         /\ response.results = results
         /\ response.successful_images =
              Cardinality({k \in DOMAIN images : images[k] = "ok"})

\* three entries, the second with corrupt bytes: three results, one error,
\* successful_images = 2
C2_Witness ==
  /\ Done /\ Accepted
  /\ images = <<"ok", "b64decode", "ok">>
  /\ response.status = 200
  /\ Len(response.results) = 3
  /\ IsError(response.results[2])
  /\ response.successful_images = 2

\* C3: with the model loaded, an empty batch is rejected with HTTP 400
\* 'No images provided' and the handler never reaches the loop: no entry
\* enumerated, nothing decoded, no scratch artifact, no scorer call.
C3_EmptyBatchRejected ==
  (Batch /\ fa_model = "loaded" /\ len_images = 0) =>
    /\ pc \in {"request", "done"}
    /\ NoItemTouched
    /\ unlink_calls = <<>>
    /\ Done => response = [status |-> 400, detail |-> "No images provided"]

C3_Witness ==
  /\ Done /\ Batch /\ fa_model = "loaded" /\ len_images = 0
  /\ response.status = 400

\* C4: with the model loaded, a batch of more than 10 entries is rejected
\* with HTTP 400 before any item is processed, and a batch of exactly 10
\* entries is accepted: all 10 entries are enumerated and the request does
\* not end with a 400.
C4_BatchSizeLimit ==
  /\ (Batch /\ fa_model = "loaded" /\ len_images > MaxImages) =>
       /\ pc \in {"request", "done"}
       /\ NoItemTouched
       /\ Done => response = [status |-> 400,
                              detail |-> "Maximum 10 images allowed per batch"]
  /\ (Batch /\ fa_model = "loaded" /\ len_images = MaxImages /\ Done) =>
       /\ Len(images) = MaxImages
       /\ response.status # 400
       /\ \A k \in DOMAIN images : images[k] # "malformed" => (k - 1) \in decode_calls

C4_Witness ==
  /\ Done /\ Batch /\ fa_model = "loaded"
  /\ len_images = MaxImages + 1
  /\ response.status = 400

\* C5: the image_index of the j-th result is the 0-based position of the
\* j-th well-formed entry of the submitted list, and the result is the
\* outcome of that entry: earlier failures and skips do not renumber.
C5_IndexIsPosition ==
  Batch =>
    \A j \in DOMAIN results :
      LET p == results[j].image_index + 1 IN
      /\ p \in DOMAIN images
      /\ images[p] # "malformed"
      /\ Cardinality({k \in 1..p : images[k] # "malformed"}) = j
      /\ IsError(results[j]) => results[j].error = images[p]
      /\ IsSuccess(results[j]) => images[p] \in {"ok", "nonfinite"}

\* a result whose index is ahead of its rank, after a skip and a failure
C5_Witness ==
  /\ Done /\ Batch /\ response.status = 200
  /\ \E j \in DOMAIN response.results :
       /\ response.results[j].image_index > j - 1
       /\ IsSuccess(response.results[j])
       /\ \E k \in 1..j : IsError(response.results[k])

\* C6: at every point of the batch, and in the response, the results are
\* strictly increasing in image_index, every index is in 0..n-1, and there
\* are at most n results.
StrictlyIncreasing(res) ==
  \A a \in 1..(Len(res) - 1) : res[a].image_index < res[a + 1].image_index

InRange(res) == \A j \in DOMAIN res : res[j].image_index \in 0..(len_images - 1)

C6_ResultsOrdered ==
  Batch =>
    /\ StrictlyIncreasing(results)
    /\ InRange(results)
    /\ Len(results) <= len_images
    /\ (Done /\ response.status = 200) =>
         /\ StrictlyIncreasing(response.results)
         /\ InRange(response.results)
         /\ Len(response.results) <= len_images

C6_Witness ==
  /\ Done /\ Batch /\ response.status = 200
  /\ Len(response.results) = 2
  /\ len_images = 3
  /\ response.results[2].image_index = 2

\* C7: every well-formed entry enumerated has exactly one result (each has
\* a result, and there are as many results as such entries), and every
\* result is either the success dict (aesthetic_score, image_format,
\* image_size, no error) or the error dict (error, no aesthetic_score).
C7_ExactlyOneOutcome ==
  Batch =>
    /\ \A k \in DOMAIN images :
         images[k] # "malformed" =>
           \E j \in DOMAIN results : results[j].image_index = k - 1
    /\ Len(results) =
         Cardinality({k \in DOMAIN images : images[k] # "malformed"})
    /\ \A j \in DOMAIN results :
         \/ DOMAIN results[j] =
              {"image_index", "aesthetic_score", "image_format", "image_size"}
         \/ DOMAIN results[j] = {"image_index", "error"}

C7_Witness ==
  /\ Done /\ Batch /\ response.status = 200
  /\ \E a, b \in DOMAIN response.results :
       /\ IsError(response.results[a]) /\ ~IsSuccess(response.results[a])
       /\ IsSuccess(response.results[b]) /\ ~IsError(response.results[b])

\* C8: a malformed entry has no result, starts no decoding, creates no
\* scratch artifact and causes no scorer call, and the loop goes on: once
\* the loop is left every entry of the batch has been enumerated.
C8_MalformedSkipped ==
  Batch =>
    /\ \A k \in DOMAIN images :
         images[k] = "malformed" =>
           /\ ResultsOf(results, k - 1) = {}
           /\ (k - 1) \notin decode_calls
           /\ \A f \in DOMAIN owner : owner[f] # k - 1
    /\ Len(scorer_calls) <=
         Cardinality({k \in DOMAIN images : images[k] # "malformed"})
    /\ (Accepted /\ pc \in {"respond", "done"}) => Len(images) = len_images

\* a malformed entry followed by an entry that was scored
C8_Witness ==
  /\ Done /\ Batch /\ response.status = 200
  /\ \E k \in DOMAIN images :
       /\ images[k] = "malformed"
       /\ k + 1 \in DOMAIN images
       /\ images[k + 1] = "ok"
       /\ ResultsOf(response.results, k - 1) = {}
       /\ ResultsOf(response.results, k) # {}

\* C9: in a success response of /score-batch, successful_images is the
\* number of results without an error field.
C9_SuccessfulCount ==
  (Done /\ Batch /\ response.status = 200) =>
    response.successful_images =
      Cardinality({j \in DOMAIN response.results : ~IsError(response.results[j])})

C9_Witness ==
  /\ Done /\ Batch /\ response.status = 200
  /\ response.successful_images = 1
  /\ Len(response.results) = 3

\* C10: once the request has ended, the scratch artifact of every item
\* whose scorer call failed is gone, and a request whose only failures are
\* scorer failures leaves no scratch artifact of its own.
ScorerFailed(e) == e \in {"aesthetic_score", "float"}

C10_ReleasedAfterScorerFailure ==
  Done =>
    /\ \A f \in DOMAIN owner : ScorerFailed(images[owner[f] + 1]) => f \notin fs
    /\ (\A k \in DOMAIN images : images[k] = "ok" \/ ScorerFailed(images[k]))
         => Leaked = {}

C10_Witness ==
  /\ Done /\ Batch
  /\ \E f \in DOMAIN owner :
       /\ images[owner[f] + 1] = "aesthetic_score"
       /\ f \in DOMAIN owner \ fs
       /\ \E k \in DOMAIN unlink_calls : unlink_calls[k] = f

\* C11: an item whose decoding fails (base64 decode, image open, colour
\* conversion) creates no scratch artifact, an item that acquired its
\* scratch file (and so every item that reaches re-encoding or scoring)
\* creates exactly one, and no item creates more than one.  An item whose
\* NamedTemporaryFile call itself raises acquired nothing and creates none.
ArtifactsOf(idx) == {f \in DOMAIN owner : owner[f] = idx}

C11_ArtifactsPerItem ==
  endpoint \in {"score", "score-batch"} =>
    \A k \in DOMAIN images :
      LET made == Cardinality(ArtifactsOf(k - 1)) IN
      /\ images[k] \in {"malformed", "b64decode", "open", "tempfile"} =>
           made = 0
      /\ images[k] \in {"save", "aesthetic_score", "float", "nonfinite", "ok"} =>
           made = 1
      /\ made <= 1

C11_Witness ==
  /\ Done /\ Batch
  /\ \E a, b \in DOMAIN images :
       /\ images[a] = "open" /\ ArtifactsOf(a - 1) = {}
       /\ images[b] = "aesthetic_score" /\ Cardinality(ArtifactsOf(b - 1)) = 1

\* C12: with fa_model None every request to /score, /score-batch or
\* /score-file ends with HTTP 503 'Model not loaded', whatever the size of
\* the batch, and the handler does nothing else: no entry enumerated,
\* nothing decoded, no scratch artifact, no scorer call.
C12_ModelUnavailable ==
  fa_model = "None" =>
    /\ pc \in {"request", "done"}
    /\ NoItemTouched
    /\ unlink_calls = <<>>
    /\ Done => response = [status |-> 503, detail |-> "Model not loaded"]

\* an empty batch with the model missing gets the 503, not the 400
C12_Witness ==
  /\ Done /\ Batch /\ fa_model = "None"
  /\ len_images = 0
  /\ response.status = 503

Range(seq) == {seq[k] : k \in DOMAIN seq}

\* C13 as stated: in a batch the scratch artifact of an item is released
\* before the item's result is recorded, so no item with a recorded
\* success result still has its artifact, and at most one artifact of the
\* batch exists at any point.
C13_ReleasedBeforeResult ==
  Batch =>
    /\ \A j \in DOMAIN results :
         IsSuccess(results[j]) =>
           ArtifactsOf(results[j].image_index) \cap fs = {}
    /\ Cardinality(Range(temp_files) \cap fs) <= 1

\* C13 as amended: in a batch each item's pipeline runs acquire, score,
\* result in that order, and nothing is released while the loop runs: every
\* recorded artifact exists until the loop has ended, all of them are
\* unlinked, in creation order, before the response is built, and at most
\* one artifact per enumerated entry exists at any point.
C13_ReleasedAfterLoop ==
  Batch =>
    /\ Range(scorer_calls) \subseteq DOMAIN owner
    /\ \A j \in DOMAIN results :
         IsSuccess(results[j]) =>
           ArtifactsOf(results[j].image_index) \cap Range(scorer_calls) # {}
    /\ pc = "loop" => unlink_calls = <<>> /\ Range(temp_files) \subseteq fs
    /\ (Accepted /\ pc \in {"respond", "done"}) =>
         /\ Range(temp_files) \cap fs = {}
         /\ Len(unlink_calls) >= Len(temp_files)
         /\ SubSeq(unlink_calls, 1, Len(temp_files)) = temp_files
    /\ Cardinality(Leaked) <= Len(images)

\* two artifacts of one batch exist while the loop runs
C13_Witness ==
  /\ Batch /\ pc = "loop"
  /\ Len(results) >= 2
  /\ Cardinality(Range(temp_files) \cap fs) >= 2

\* C14: within a request os.unlink is never called twice on the same
\* temporary file.
C14_NoDoubleUnlink ==
  \A a, b \in DOMAIN unlink_calls :
    a # b => unlink_calls[a] # unlink_calls[b]

\* C15: two requests on the event loop.  The artifacts of a request that
\* it has not released itself exist (the other request did not delete
\* them), the unreleased artifacts of the two requests have different
\* names, a request hands to the scorer and to os.unlink only names it
\* created, and its results are those of its own entries.
Live(c) == DOMAIN c.owner \ Range(c.unlink_calls)

OwnOnly(c) == Range(c.scorer_calls) \cup Range(c.unlink_calls) \subseteq DOMAIN c.owner

OwnResults(c) ==
  /\ c.endpoint = "score-batch" =>
       /\ \A j \in DOMAIN c.results :
            LET p == c.results[j].image_index + 1 IN
            /\ p \in DOMAIN c.images
            /\ IsError(c.results[j]) => c.results[j].error = c.images[p]
            /\ IsSuccess(c.results[j]) => c.images[p] \in {"ok", "nonfinite"}
       /\ Len(c.results) =
            Cardinality({k \in DOMAIN c.images : c.images[k] # "malformed"})
  /\ (c.pc = "done" /\ c.images # <<>>) =>
       (c.response.status = 200 <=>
          \A k \in DOMAIN c.images : c.images[k] \in {"ok"} \cup
             (IF c.endpoint = "score-batch"
              THEN ItemFailedKinds \cup {"malformed"} ELSE {}))

C15_RequestsIndependent ==
  saved # NoRequest =>
    /\ Live(Ctx) \subseteq fs
    /\ Live(saved) \subseteq fs
    /\ Live(Ctx) \cap Live(saved) = {}
    /\ OwnOnly(Ctx) /\ OwnOnly(saved)
    /\ OwnResults(Ctx) /\ OwnResults(saved)

\* a batch holds an artifact while an upload waits at its await with its own
C15_Witness ==
  /\ saved # NoRequest
  /\ saved.pc = "await" /\ Live(saved) # {}
  /\ Batch /\ pc = "loop" /\ Live(Ctx) # {}
  /\ Len(scorer_calls) >= 1

\* C16: every file handed to the scorer, on /score, /score-batch and
\* /score-file, holds an image in RGB mode.
C16_ScorerGetsRGB == \A k \in DOMAIN scorer_modes : scorer_modes[k] = "RGB"

\* C17: a non-empty batch of at most 10 entries that are all malformed ends
\* with the success response: no results, successful_images 0, and
\* total_images the number of submitted entries; total_images of a success
\* response is always the number of submitted entries.
C17_AllMalformed ==
  (Done /\ Accepted) =>
    /\ response.status = 200 => response.total_images = len_images
    /\ (\A k \in DOMAIN images : images[k] = "malformed") =>
         /\ response.status = 200
         /\ response.results = <<>>
         /\ response.successful_images = 0
         /\ response.total_images > Len(response.results)

C17_Witness ==
  /\ Done /\ Accepted
  /\ images = <<"malformed", "malformed">>
  /\ response.status = 200
  /\ response.results = <<>>
  /\ response.total_images = 2
  /\ response.successful_images = 0

====
